---------------------------- MODULE Spec2Model ----------------------------
(***************************************************************************)
(* Model of the voice-design TTS service (server.py) and of its client     *)
(* (client.py).                                                            *)
(*                                                                         *)
(* Strings are sequences of tokens (each token a short string), so that    *)
(* strip(), slicing, concatenation and "starts with"/"contains" are        *)
(* computed.  An optional value (Python's None or a value) is a set with   *)
(* no or one element.  A path is a record [abs, parts], parts being the    *)
(* sequence of its components, each component a string (of tokens).        *)
(***************************************************************************)
EXTENDS Integers, Sequences, FiniteSets, TLC

VARIABLES
    \* ---- client side (client.py) ----
    fsFiles,    \* the file system's regular files: path -> content
    fsDirs,     \* the file system's directories (the working directory aside)
    now,        \* int(time.time())
    netReqs,    \* POST /generate_audio requests issued so far
    ncalls,     \* generate_audio calls made so far
    gen,        \* the last generate_audio call: arguments, outcome, pre-state
    listing,    \* the last list_audio_files call: directory and result
    bpc,        \* batch_generate: "idle", "loop", "sleep", "done", "failed"
    items,      \* batch_generate: texts_and_settings
    delay,      \* batch_generate: delay
    idx,        \* batch_generate: number of items processed
    results,    \* batch_generate: results dictionary
    log,        \* batch_generate: the calls and sleeps made, with their times,
                \* and the output path and the exception type of each call
    tally,      \* batch_generate: the logged <<success_count, total>>
    \* ---- service side (server.py) ----
    phase,      \* "starting", "serving", "aborted"
    model,      \* the global model handle: {} (None) or {"Qwen3TTS"}
    initCount,  \* number of init_model runs
    nreq,       \* requests handled so far
    req,        \* the last request handled
    resp,       \* the response to it
    modelCalls, \* arguments of the Model invocations made for the last request
    nerr        \* requests answered with status 500 so far

clientVars == <<fsFiles, fsDirs, now, netReqs, ncalls, gen>>
batchVars  == <<bpc, items, delay, idx, results, log, tally>>
serverVars == <<phase, model, initCount, nreq, req, resp, modelCalls, nerr>>
listVars   == <<listing>>
vars == <<clientVars, batchVars, serverVars, listVars>>

----------------------------------------------------------------------------
(* Bounds of the model *)

MaxCalls == 1      \* direct generate_audio calls explored
MaxItems == 2      \* length of texts_and_settings explored
MaxReqs  == 2      \* requests to the service explored

----------------------------------------------------------------------------
(* Strings *)

Min(a, b) == IF a < b THEN a ELSE b

\* str.isspace for the characters of the model
IsSpace(c) == c = " "

\* str.isalnum for the characters of the model
IsAlnum(c) == c \in {"a", "b", "x", "y", "v"}

RECURSIVE LStrip(_)
LStrip(s) == IF s # <<>> /\ IsSpace(Head(s)) THEN LStrip(Tail(s)) ELSE s

RECURSIVE RStrip(_)
RStrip(s) ==
    IF s # <<>> /\ IsSpace(s[Len(s)]) THEN RStrip(SubSeq(s, 1, Len(s) - 1)) ELSE s

\* str.strip()
Strip(s) == RStrip(LStrip(s))

\* s[:n]
Take(s, n) == SubSeq(s, 1, Min(n, Len(s)))

\* str.startswith
StartsWith(s, p) == Len(p) <= Len(s) /\ SubSeq(s, 1, Len(p)) = p

\* p in s
Contains(s, p) ==
    \E i \in 0..(Len(s) - Len(p)) : SubSeq(s, i + 1, i + Len(p)) = p

\* a string of n copies of c
Rep(c, n) == [i \in 1..n |-> c]

----------------------------------------------------------------------------
(* Paths (pathlib.Path) *)

MkPath(abs, parts) == [abs |-> abs, parts |-> parts]

\* Path(".")
Cwd == MkPath(FALSE, <<>>)

\* Path.parent
Parent(p) ==
    IF p.parts = <<>> THEN p
    ELSE MkPath(p.abs, SubSeq(p.parts, 1, Len(p.parts) - 1))

\* a / b : an absolute right operand replaces the left one
JoinPath(a, b) == IF b.abs THEN b ELSE MkPath(a.abs, a.parts \o b.parts)

\* the path and every ancestor of it below the root / working directory
Ancestors(p) == {MkPath(p.abs, SubSeq(p.parts, 1, k)) : k \in 1..Len(p.parts)}

RECURSIVE JoinParts(_)
JoinParts(parts) ==
    IF parts = <<>> THEN <<>>
    ELSE IF Len(parts) = 1 THEN parts[1]
    ELSE parts[1] \o <<"/">> \o JoinParts(Tail(parts))

\* str(path)
PathStr(p) ==
    IF p.parts = <<>> THEN (IF p.abs THEN <<"/">> ELSE <<".">>)
    ELSE (IF p.abs THEN <<"/">> ELSE <<>>) \o JoinParts(p.parts)


----------------------------------------------------------------------------
(* Client: generate_audio *)

SafeLen   == 20      \* text[:20]
ChunkSize == 8192    \* iter_content(chunk_size=8192)
ClientTimeout == 1   \* self.timeout, in clock ticks

\* exceptions: a type and str(e)
Exc(t, m) == [type |-> t, msg |-> m]
NoExc == Exc("none", <<>>)

MsgEmptyText     == <<"text must not be empty">>
MsgEmptyInstruct == <<"instruct must not be empty">>
MsgGenFailed     == <<"audio generation failed", ":", " ">>

\* what the network and the file system do to one POST: the request fails
\* to connect, times out, or is answered with a status and a body; an
\* answered request may still break while the body is streamed ("stream")
\* or meet a file that cannot be opened ("open")
MkEnv(kind, status, body, fault) ==
    [kind |-> kind, status |-> status, body |-> body, fault |-> fault]
NoEnv == MkEnv("none", 0, <<>>, "none")

WavBody == <<"RIFF", "pcm">>
ErrBody == <<"model error", ":", " ", "X">>

Envs ==
    {MkEnv("conn_error", 0, <<>>, "none"), MkEnv("timeout", 0, <<>>, "none")}
    \cup {MkEnv("response", 200, b, "none") : b \in {WavBody, <<>>}}
    \cup {MkEnv("response", 200, WavBody, f) : f \in {"stream", "open"}}
    \cup {MkEnv("response", 304, <<>>, "none")}
    \cup {MkEnv("response", 404, <<"Not Found">>, "none")}
    \cup {MkEnv("response", 500, ErrBody, "none")}

\* the argument validation of generate_audio: the exception raised, or NoExc
ValidateArgsNoStrip(text, instruct) ==
    IF text = <<>> THEN Exc("ValueError", MsgEmptyText)
    ELSE IF instruct = <<>> THEN Exc("ValueError", MsgEmptyInstruct)
    ELSE NoExc

ValidateArgs(text, instruct) ==
    IF Strip(text) = <<>> THEN Exc("ValueError", MsgEmptyText)
    ELSE IF Strip(instruct) = <<>> THEN Exc("ValueError", MsgEmptyInstruct)
    ELSE NoExc

IsSafeChar(c) == IsAlnum(c) \/ c \in {" ", "_", "-"}

\* "".join(c for c in text[:20] if c.isalnum() or c in " _-").strip()
SafeText(text) == Strip(SelectSeq(Take(text, SafeLen), IsSafeChar))

\* the generated file name, as a path
AutoFileName(text, auto_timestamp, clock) ==
    LET timestamp == IF auto_timestamp THEN <<ToString(clock)>> ELSE <<>>
        safe_text == SafeText(text)
        name == IF safe_text # <<>>
                THEN <<"voice_">> \o timestamp \o <<"_">> \o safe_text \o <<".wav">>
                ELSE <<"voice_">> \o timestamp \o <<".wav">>
    IN  MkPath(FALSE, <<name>>)

\* Path.mkdir(parents=True, exist_ok=True): fails on a component that is a
\* regular file, having created the directories above it
MkdirParents(p, files, dirs) ==
    LET clash == {q \in Ancestors(p) : q \in DOMAIN files}
        above == {q \in Ancestors(p) :
                     \A c \in clash : Len(q.parts) < Len(c.parts)}
    IN  [ok |-> clash = {}, dirs |-> dirs \cup above]

\* requests.post(...): the requests sent and what came of them
SendRequestRetry(params, env) ==
    [sent |-> IF env.kind = "response" /\ env.status = 200
              THEN <<params>> ELSE <<params, params>>,
     env |-> env]

SendRequest(params, env) == [sent |-> <<params>>, env |-> env]

\* response.raise_for_status(): TRUE when it raises HTTPError
RaiseForStatusLenient(status) == 500 <= status /\ status < 600

RaiseForStatus(status) == 400 <= status /\ status < 600

\* except requests.HTTPError: the exception that leaves generate_audio
HandleHTTPErrorNoBody(status, body) ==
    IF status = 500 THEN Exc("ValueError", MsgGenFailed)
    ELSE Exc("HTTPError", <<ToString(status), " Error">>)

HandleHTTPError(status, body) ==
    IF status = 500 THEN Exc("ValueError", MsgGenFailed \o body)
    ELSE Exc("HTTPError", <<ToString(status), " Error">>)

\* response.iter_content(chunk_size): the body cut into chunks
RECURSIVE IterContent(_, _)
IterContent(body, n) ==
    IF body = <<>> THEN <<>>
    ELSE <<Take(body, n)>> \o IterContent(SubSeq(body, Min(n, Len(body)) + 1, Len(body)), n)

\* for chunk in ...: if chunk: f.write(chunk)
WriteChunksNone(chunks) == <<>>

RECURSIVE WriteChunks(_)
WriteChunks(chunks) ==
    IF chunks = <<>> THEN <<>>
    ELSE (IF Head(chunks) # <<>> THEN Head(chunks) ELSE <<>>) \o WriteChunks(Tail(chunks))

\* generate_audio, as a function of its arguments, of what the network and
\* the file system do (env), and of the state it reads; the result holds
\* the new file system, the requests sent, the exception raised (or NoExc),
\* the value returned, the output path (if one was determined) and the
\* time taken
GenerateAudio(text, language, instruct, output_file, auto_timestamp, env, files, dirs, clock) ==
    LET Res(f, d, s, e, r, o, t) ==
            [files |-> f, dirs |-> d, sent |-> s, exc |-> e, ret |-> r,
             out |-> o, elapsed |-> t]
        bad == ValidateArgs(text, instruct)
        out == IF output_file = {}
               THEN AutoFileName(text, auto_timestamp, clock)
               ELSE CHOOSE p \in output_file : TRUE
        mk == MkdirParents(Parent(out), files, dirs)
        params == [text |-> text, language |-> language, instruct |-> instruct]
        post == SendRequest(params, env)
        chunks == IterContent(env.body, ChunkSize)
        got == IF env.fault = "stream"
               THEN SubSeq(chunks, 1, Len(chunks) - 1) ELSE chunks
        written == [p \in DOMAIN files \cup {out} |->
                       IF p = out THEN WriteChunks(got) ELSE files[p]]
    IN  IF bad # NoExc
          THEN Res(files, dirs, <<>>, bad, <<>>, {}, 0)
        ELSE IF ~mk.ok
          THEN Res(files, mk.dirs, <<>>, Exc("OSError", <<"mkdir">>), <<>>, {out}, 0)
        ELSE IF post.env.kind = "timeout"
          THEN Res(files, mk.dirs, post.sent, Exc("Timeout", <<"timed out">>),
                   <<>>, {out}, ClientTimeout)
        ELSE IF post.env.kind = "conn_error"
          THEN Res(files, mk.dirs, post.sent,
                   Exc("ConnectionError", <<"connection failed">>), <<>>, {out}, 0)
        ELSE IF RaiseForStatus(post.env.status)
          THEN Res(files, mk.dirs, post.sent,
                   HandleHTTPError(post.env.status, post.env.body), <<>>, {out}, 0)
        ELSE IF post.env.fault = "open" \/ out \in mk.dirs \/ out.parts = <<>>
          THEN Res(files, mk.dirs, post.sent, Exc("OSError", <<"open">>), <<>>, {out}, 0)
        ELSE IF post.env.fault = "stream"
          THEN Res(written, mk.dirs, post.sent,
                   Exc("ChunkedEncodingError", <<"connection broken">>), <<>>, {out}, 0)
        ELSE Res(written, mk.dirs, post.sent, NoExc, PathStr(out), {out}, 0)

Languages == {"Chinese"}
Texts     == {<<>>, <<" ">>, <<"a">>, <<"!", "a">>}
Instructs == {<<>>, <<" ", " ">>, <<"v">>}
FileA     == MkPath(FALSE, <<<<"a.wav">>>>)
FileOutA  == MkPath(FALSE, <<<<"out">>, <<"a.wav">>>>)
OutputFiles == {{}, {FileA}, {FileOutA}}
OldContent == <<"old">>

\* a call of generate_audio from the command line or from quick_generate
Generate(text, language, instruct, output_file, auto_timestamp, env) ==
    /\ ncalls < MaxCalls
    /\ LET r == GenerateAudio(text, language, instruct, output_file,
                              auto_timestamp, env, fsFiles, fsDirs, now)
       IN  /\ fsFiles' = r.files
           /\ fsDirs' = r.dirs
           /\ now' = now + r.elapsed
           /\ netReqs' = netReqs + Len(r.sent)
           /\ ncalls' = ncalls + 1
           /\ gen' = [n |-> ncalls + 1, text |-> text, instruct |-> instruct,
                      out |-> r.out, env |-> IF r.sent = <<>> THEN NoEnv ELSE env,
                      exc |-> r.exc, ret |-> r.ret, sent |-> r.sent,
                      filesBefore |-> fsFiles, dirsBefore |-> fsDirs]
    /\ UNCHANGED <<batchVars, serverVars, listVars>>

NoGen ==
    [n |-> 0, text |-> <<>>, instruct |-> <<>>, out |-> {}, env |-> NoEnv,
     exc |-> NoExc, ret |-> <<>>, sent |-> <<>>,
     filesBefore |-> <<>>, dirsBefore |-> {}]

BatchIdle ==
    /\ bpc = "idle" /\ items = <<>> /\ delay = 0 /\ idx = 0
    /\ results = <<>> /\ log = <<>> /\ tally = <<0, 0>>

\* what the Model collaborator does when invoked: it raises (msg), or it
\* returns a list of sample buffers (wavs) and a sample rate (sr)
MkOut(kind, msg, wavs, sr) == [kind |-> kind, msg |-> msg, wavs |-> wavs, sr |-> sr]
NoOut == MkOut("none", <<>>, <<>>, 0)

MkReq(op, text, language, instruct, handle, out) ==
    [op |-> op, text |-> text, language |-> language, instruct |-> instruct,
     handle |-> handle, out |-> out]
NoReq == MkReq("none", <<>>, {}, <<>>, {}, NoOut)

MkResp(status, detail, body, media_type, disposition, payload) ==
    [status |-> status, detail |-> detail, body |-> body,
     media_type |-> media_type, disposition |-> disposition, payload |-> payload]
NoPayload == [message |-> "", version |-> ""]
NoResp == MkResp(0, <<>>, <<>>, "", "", NoPayload)

ServerOff ==
    /\ phase = "starting" /\ model = {} /\ initCount = 0 /\ nreq = 0
    /\ req = NoReq
    /\ resp = NoResp
    /\ modelCalls = <<>>
    /\ nerr = 0

\* list_audio_files not called yet
NoListing == [done |-> FALSE, directory |-> Cwd, files |-> <<>>]

ListIdle == listing = NoListing

InitGen ==
    /\ fsFiles \in {<<>>, [p \in {FileA} |-> OldContent]}
    /\ fsDirs = {}
    /\ now = 0
    /\ netReqs = 0
    /\ ncalls = 0
    /\ gen = NoGen
    /\ BatchIdle
    /\ ServerOff
    /\ ListIdle

NextGen ==
    \E text \in Texts, language \in Languages, instruct \in Instructs,
       output_file \in OutputFiles, auto_timestamp \in BOOLEAN, env \in Envs :
        Generate(text, language, instruct, output_file, auto_timestamp, env)

SpecGen == InitGen /\ [][NextGen]_vars

----------------------------------------------------------------------------
(* Client: batch_generate *)

KeyLen == 30         \* text[:30]

OutDir == MkPath(FALSE, <<<<"batch_output">>>>)
ErrTag == <<"ERROR", ":", " ">>

LongX == Rep("a", KeyLen) \o <<"x">>
LongY == Rep("a", KeyLen) \o <<"y">>

MkItem(text, instruct, filename) ==
    [text |-> text, instruct |-> instruct, filename |-> filename]

\* the batch items explored: item.get("text", "") is <<>> for a missing
\* text, filename is {} for a missing (or empty) filename
BatchItems ==
    { MkItem(<<"a">>, <<"v">>, {}),
      MkItem(<<"a">>, <<"v">>, {MkPath(FALSE, <<<<"a.wav">>>>)}),
      MkItem(<<>>, <<"v">>, {}),
      MkItem(LongX, <<"v">>, {MkPath(FALSE, <<<<"b.wav">>>>)}),
      MkItem(LongY, <<" ">>, {}) }

Delays == {0, 1}

\* all sequences over S of length at most n
SeqsUpTo(S, n) == UNION {[1..k -> S] : k \in 0..n}

\* text[:30] + "..."
ResultKey(text) == Take(text, KeyLen) \o <<"...">>

\* results[k] = v
DictSet(d, k, v) == [x \in DOMAIN d \cup {k} |-> IF x = k THEN v ELSE d[x]]

\* except Exception: the exception types the clause catches
CaughtOnlyValueError(e) == e.type = "ValueError"

Caught(e) ==
    e.type \in {"ValueError", "OSError", "Timeout", "ConnectionError",
                "HTTPError", "ChunkedEncodingError"}

\* if i < len(texts_and_settings) and delay > 0
ShouldSleepAfterLast(i, n, d) == d > 0

ShouldSleep(i, n, d) == i < n /\ d > 0

\* sum(1 for v in results.values() if not str(v).startswith("ERROR:"))
SuccessCount(d) == Cardinality({k \in DOMAIN d : ~StartsWith(d[k], <<"ERROR", ":">>)})

\* batch_generate up to the loop: the output directory is made
BatchStart(its, d) ==
    /\ bpc = "idle"
    /\ LET mk == MkdirParents(OutDir, fsFiles, fsDirs)
       IN  /\ fsDirs' = mk.dirs
           /\ bpc' = IF mk.ok THEN "loop" ELSE "failed"
    /\ items' = its
    /\ delay' = d
    /\ idx' = 0
    /\ results' = <<>>
    /\ log' = <<>>
    /\ UNCHANGED <<fsFiles, now, netReqs, ncalls, gen, tally, serverVars, listVars>>

\* one iteration of the loop, up to the sleep
BatchItem(env) ==
    /\ bpc = "loop"
    /\ idx < Len(items)
    /\ LET i == idx + 1
           item == items[i]
           output_file == IF item.filename # {}
                          THEN {JoinPath(OutDir, CHOOSE f \in item.filename : TRUE)}
                          ELSE {}
           r == GenerateAudio(item.text, "Chinese", item.instruct, output_file,
                              TRUE, env, fsFiles, fsDirs, now)
           key == ResultKey(item.text)
       IN  /\ fsFiles' = r.files
           /\ fsDirs' = r.dirs
           /\ now' = now + r.elapsed
           /\ netReqs' = netReqs + Len(r.sent)
           /\ ncalls' = ncalls + 1
           /\ gen' = [n |-> ncalls + 1, text |-> item.text,
                      instruct |-> item.instruct, out |-> r.out,
                      env |-> IF r.sent = <<>> THEN NoEnv ELSE env,
                      exc |-> r.exc, ret |-> r.ret, sent |-> r.sent,
                      filesBefore |-> fsFiles, dirsBefore |-> fsDirs]
           /\ log' = Append(log, [ev |-> "call", i |-> i, t0 |-> now,
                                  t1 |-> now + r.elapsed, out |-> r.out,
                                  exc |-> r.exc.type])
           /\ idx' = i
           /\ IF r.exc = NoExc
                THEN /\ results' = DictSet(results, key, r.ret)
                     /\ bpc' = IF ShouldSleep(i, Len(items), delay)
                               THEN "sleep" ELSE "loop"
              ELSE IF Caught(r.exc)
                THEN /\ results' = DictSet(results, key, ErrTag \o r.exc.msg)
                     /\ bpc' = IF ShouldSleep(i, Len(items), delay)
                               THEN "sleep" ELSE "loop"
              ELSE /\ results' = results
                   /\ bpc' = "failed"
    /\ UNCHANGED <<items, delay, tally, serverVars, listVars>>

\* time.sleep(delay)
BatchSleep ==
    /\ bpc = "sleep"
    /\ now' = now + delay
    /\ log' = Append(log, [ev |-> "sleep", i |-> idx, t0 |-> now, t1 |-> now + delay,
                            out |-> {}, exc |-> "none"])
    /\ bpc' = "loop"
    /\ UNCHANGED <<fsFiles, fsDirs, netReqs, ncalls, gen, items, delay, idx,
                   results, tally, serverVars, listVars>>

\* after the loop: the tally is logged and results returned
BatchReturn ==
    /\ bpc = "loop"
    /\ idx = Len(items)
    /\ tally' = <<SuccessCount(results), Len(items)>>
    /\ bpc' = "done"
    /\ UNCHANGED <<fsFiles, fsDirs, now, netReqs, ncalls, gen, items, delay, idx,
                   results, log, serverVars, listVars>>

InitBatch ==
    /\ fsFiles = <<>>
    /\ fsDirs = {}
    /\ now = 0
    /\ netReqs = 0
    /\ ncalls = 0
    /\ gen = NoGen
    /\ BatchIdle
    /\ ServerOff
    /\ ListIdle

NextBatch ==
    \/ \E its \in SeqsUpTo(BatchItems, MaxItems), d \in Delays : BatchStart(its, d)
    \/ \E env \in Envs : BatchItem(env)
    \/ BatchSleep
    \/ BatchReturn

SpecBatch == InitBatch /\ [][NextBatch]_vars

----------------------------------------------------------------------------
(* Service: server.py *)

SampleRates == {24000}   \* the rates the Model returns with its buffers

MsgNotLoaded    == <<"model not loaded">>
MsgServerFailed == <<"audio generation failed", ":", " ">>

\* a sample buffer: n samples of a data type
MkBuf(n, dtype) == [n |-> n, dtype |-> dtype]

ModelOuts ==
    {MkOut("raise", m, <<>>, 0) : m \in {<<>>, <<"unsupported", " ", "language">>}}
    \cup {MkOut("return", <<>>, w, sr) :
            sr \in SampleRates,
            w \in {<<>>, <<MkBuf(0, "float32")>>, <<MkBuf(2, "float32")>>,
                   <<MkBuf(1, "float32"), MkBuf(2, "float32")>>,
                   <<MkBuf(1, "bfloat16")>>}}

\* init_model: the handle it leaves in the global, and whether it raises
InitModelSwallow(loadOk) ==
    [model |-> IF loadOk THEN {"Qwen3TTS"} ELSE {}, raised |-> FALSE]

InitModel(loadOk) ==
    [model |-> IF loadOk THEN {"Qwen3TTS"} ELSE {}, raised |-> ~loadOk]

\* the startup event: a startup handler that raises aborts the start
Startup(loadOk) ==
    /\ phase = "starting"
    /\ LET r == InitModel(loadOk)
       IN  /\ model' = r.model
           /\ phase' = IF r.raised THEN "aborted" ELSE "serving"
    /\ initCount' = initCount + 1
    /\ UNCHANGED <<nreq, req, resp, modelCalls, nerr, clientVars, batchVars, listVars>>

\* return {"message": ..., "version": "1.0.0"}
RootResponseAfterErrors ==
    IF nerr > 0
    THEN MkResp(500, <<>>, <<>>, "application/json", "", NoPayload)
    ELSE MkResp(200, <<>>, <<>>, "application/json", "",
                [message |-> "voice design API running", version |-> "1.0.0"])

RootResponse ==
    MkResp(200, <<>>, <<>>, "application/json", "",
           [message |-> "voice design API running", version |-> "1.0.0"])

\* GET /
Root ==
    /\ phase = "serving"
    /\ nreq < MaxReqs
    /\ nreq' = nreq + 1
    /\ req' = MkReq("GET /", <<>>, {}, <<>>, model, NoOut)
    /\ resp' = RootResponse
    /\ modelCalls' = <<>>
    /\ nerr' = nerr
    /\ UNCHANGED <<phase, model, initCount, clientVars, batchVars, listVars>>

\* language: str = Query("Chinese")
QueryLanguage(language) ==
    IF language = {} THEN "Chinese" ELSE CHOOSE l \in language : TRUE

\* the arguments of model.generate_voice_design(...)
CallModelDefaultLanguage(text, language, instruct) ==
    [text |-> text, language |-> "Chinese", instruct |-> instruct]

CallModel(text, language, instruct) ==
    [text |-> text, language |-> language, instruct |-> instruct]

MsgIndexError  == <<"list index out of range">>
MsgUnsupported == <<"unsupported", " ", "data type">>
SfDtypes       == {"float32", "float64", "int16", "int32"}

\* sf.write(audio_buffer, wavs[0], sr, format="WAV"): the exception raised,
\* or NoExc
SfWriteError(buf, sr) ==
    IF buf.dtype \notin SfDtypes THEN Exc("TypeError", MsgUnsupported) ELSE NoExc

\* the bytes of the WAV file: a header and the samples
WavEncode(buf, sr) == <<"RIFF", ToString(sr)>> \o Rep("pcm", buf.n)

\* except Exception as e: raise HTTPException(500, detail=f"...: {str(e)}")
ErrorResponseNoMessage(e) ==
    MkResp(500, MsgServerFailed, <<>>, "application/json", "", NoPayload)

ErrorResponse(e) ==
    MkResp(500, MsgServerFailed \o e.msg, <<>>, "application/json", "", NoPayload)

\* StreamingResponse(audio_buffer, media_type=..., headers=...)
AudioResponse(body) ==
    MkResp(200, <<>>, body, "audio/wav",
           "attachment; filename=generated_audio.wav", NoPayload)

\* the body of the handler of POST /generate_audio: the Model invocations
\* made and the response
HandleGenerate(text, language, instruct, handle, out) ==
    LET args == CallModel(text, language, instruct)
    IN  IF handle = {}
          THEN [calls |-> <<>>,
                resp |-> ErrorResponse(
                    Exc("HTTPException", <<"500", ":", " ">> \o MsgNotLoaded))]
        ELSE IF out.kind = "raise"
          THEN [calls |-> <<args>>,
                resp |-> ErrorResponse(Exc("RuntimeError", out.msg))]
        ELSE IF out.wavs = <<>>
          THEN [calls |-> <<args>>,
                resp |-> ErrorResponse(Exc("IndexError", MsgIndexError))]
        ELSE IF SfWriteError(out.wavs[1], out.sr) # NoExc
          THEN [calls |-> <<args>>,
                resp |-> ErrorResponse(SfWriteError(out.wavs[1], out.sr))]
        ELSE [calls |-> <<args>>,
              resp |-> AudioResponse(WavEncode(out.wavs[1], out.sr))]

\* POST /generate_audio
ServeGenerate(text, language, instruct, out) ==
    /\ phase = "serving"
    /\ nreq < MaxReqs
    /\ LET h == HandleGenerate(text, QueryLanguage(language), instruct, model, out)
       IN  /\ resp' = h.resp
           /\ modelCalls' = h.calls
           /\ req' = MkReq("POST /generate_audio", text, language, instruct, model,
                           IF h.calls = <<>> THEN NoOut ELSE out)
           /\ nerr' = IF h.resp.status = 500 THEN nerr + 1 ELSE nerr
    /\ nreq' = nreq + 1
    /\ UNCHANGED <<phase, model, initCount, clientVars, batchVars, listVars>>

ReqTexts     == {<<>>, <<"a">>, <<"a", " ", "b">>}
ReqLanguages == {{}, {"English"}}
ReqInstructs == {<<>>, <<"v">>}

InitServer ==
    /\ fsFiles = <<>>
    /\ fsDirs = {}
    /\ now = 0
    /\ netReqs = 0
    /\ ncalls = 0
    /\ gen = NoGen
    /\ BatchIdle
    /\ ServerOff
    /\ ListIdle

NextServer ==
    \/ \E loadOk \in BOOLEAN : Startup(loadOk)
    \/ Root
    \/ \E text \in ReqTexts, language \in ReqLanguages, instruct \in ReqInstructs,
          out \in ModelOuts :
           ServeGenerate(text, language, instruct, out)

SpecServer == InitServer /\ [][NextServer]_vars

----------------------------------------------------------------------------
(* Properties of batch_generate, checked under SpecBatch *)

IsError(v) == StartsWith(v, <<"ERROR", ":">>)

\* C1: when batch_generate returns, the mapping has exactly as many
\* entries as there were items, whatever the items and their outcomes.
C1_ExactlyNEntries ==
    bpc = "done" => Cardinality(DOMAIN results) = Len(items)

\* C2: batch_generate calls generate_audio once for every item and returns
\* normally: no failure of an item leaves the loop, the item that failed is
\* recorded under its key as a value beginning with "ERROR:", and at the
\* return every item has been processed.
C2_ItemFailureNeverAborts ==
    /\ bpc # "failed"
    /\ bpc \in {"loop", "sleep", "done"} => ncalls = idx /\ idx <= Len(items)
    /\ bpc = "done" => idx = Len(items)
    /\ (idx > 0 /\ gen.exc # NoExc) =>
           /\ ResultKey(items[idx].text) \in DOMAIN results
           /\ IsError(results[ResultKey(items[idx].text)])

\* a batch of two items has returned, the first item failed and the second,
\* processed after it, succeeded
C2_Witness ==
    /\ bpc = "done" /\ Len(items) = 2 /\ ncalls = 2
    /\ ResultKey(items[1].text) # ResultKey(items[2].text)
    /\ IsError(results[ResultKey(items[1].text)])
    /\ ~IsError(results[ResultKey(items[2].text)])

CallsUpTo(k) == {j \in 1..k : log[j].ev = "call"}

\* C8: the items are processed in sequence order, one at a time: the k-th
\* call is the call for item k, no call or sleep starts before the one
\* before it has ended, the call for item k+1 starts no earlier than the
\* end of the call for item k plus the delay, every sleep directly follows
\* the call of an item that is not the last and lasts the delay.
C8_SequentialWithDelay ==
    \A k \in 1..Len(log) :
        /\ log[k].t0 <= log[k].t1
        /\ k > 1 => log[k - 1].t1 <= log[k].t0
        /\ log[k].ev = "call" =>
              /\ log[k].i = Cardinality(CallsUpTo(k))
              /\ \A j \in CallsUpTo(k) :
                    log[j].i + 1 = log[k].i => log[j].t1 + delay <= log[k].t0
        /\ log[k].ev = "sleep" =>
              /\ log[k].i < Len(items)
              /\ k > 1 /\ log[k - 1].ev = "call" /\ log[k - 1].i = log[k].i
              /\ log[k].t1 = log[k].t0 + delay

\* two items with a positive delay: call, sleep, call, and the batch returns
C8_Witness ==
    /\ bpc = "done" /\ Len(items) = 2 /\ delay > 0
    /\ Len(log) = 3 /\ log[2].ev = "sleep" /\ log[3].ev = "call"
    /\ log[3].t0 >= log[1].t1 + delay

FailedAttempt(e) ==
    \/ e.kind \in {"conn_error", "timeout"}
    \/ e.kind = "response" /\ (RaiseForStatus(e.status) \/ e.fault # "none")

\* C9: every generate_audio call sends at most one request, so a batch has
\* sent at most as many requests as it has processed items, and a call
\* whose one attempt failed raises.
C9_NoRetries ==
    /\ Len(gen.sent) <= 1
    /\ netReqs <= ncalls
    /\ bpc \in {"loop", "sleep", "done"} => netReqs <= idx /\ idx <= Len(items)
    /\ FailedAttempt(gen.env) => gen.exc # NoExc /\ Len(gen.sent) = 1

\* a batch of two items has returned having sent two requests, the last of
\* which failed
C9_Witness ==
    /\ bpc = "done" /\ Len(items) = 2 /\ netReqs = 2
    /\ FailedAttempt(gen.env) /\ gen.exc # NoExc

----------------------------------------------------------------------------
(* Properties of generate_audio, checked under SpecGen *)

Blank(s) == \A k \in 1..Len(s) : IsSpace(s[k])

\* C3: a generate_audio call whose text or instruct is empty or only
\* whitespace raises a ValueError, has sent no request, and has left the
\* files and the directories of the file system as they were.
C3_ValidationBeforeNetwork ==
    (gen.n > 0 /\ (Blank(gen.text) \/ Blank(gen.instruct))) =>
        /\ gen.exc.type = "ValueError"
        /\ gen.exc.msg \in {MsgEmptyText, MsgEmptyInstruct}
        /\ gen.sent = <<>>
        /\ fsFiles = gen.filesBefore
        /\ fsDirs = gen.dirsBefore

\* a call with a good text and an instruct of two spaces, and an output
\* file in a directory that does not exist, was rejected
C3_Witness ==
    /\ gen.n > 0 /\ ~Blank(gen.text) /\ gen.instruct = <<" ", " ">>
    /\ gen.exc.type = "ValueError" /\ gen.sent = <<>>
    /\ FileOutA \notin DOMAIN fsFiles /\ fsDirs = {}

Answered(g) == g.n > 0 /\ g.env.kind = "response"

HTTPErrorTranslated(g) ==
    /\ g.env.status = 500 =>
          /\ g.exc.type = "ValueError"
          /\ Contains(g.exc.msg, g.env.body)
    /\ g.env.status # 500 => g.exc.type = "HTTPError"

\* C4 as stated: a response with any status outside 200..299 makes
\* generate_audio raise, a ValueError holding the body for 500 and the
\* HTTPError for every other status.
C4_NonSuccessStatusRaises ==
    (Answered(gen) /\ gen.env.status \notin 200..299) => HTTPErrorTranslated(gen)

\* C4, amended: a response with a status in 400..599 makes generate_audio
\* raise, a ValueError holding the body for 500 and the HTTPError for every
\* other such status.
C4_ErrorStatusRaises ==
    (Answered(gen) /\ gen.env.status \in 400..599) => HTTPErrorTranslated(gen)

\* the service answered 500 "model error: X" and the call raised a
\* ValueError whose message holds X
C4_Witness ==
    /\ Answered(gen) /\ gen.env.status = 500 /\ gen.env.body = ErrBody
    /\ gen.exc.type = "ValueError" /\ Contains(gen.exc.msg, <<"X">>)

RequestFailedRaises(g) ==
    /\ g.env.kind = "conn_error" => g.exc.type = "ConnectionError"
    /\ g.env.kind = "timeout" => g.exc.type = "Timeout"
    /\ g.env.kind = "response" => g.exc.type \in {"HTTPError", "ValueError"}
    /\ g.ret = <<>>

\* C10 as stated: a request that fails to connect, times out or is answered
\* with a status outside 200..299 makes generate_audio raise and leaves
\* every file as it was, none added.
C10_FailedRequestNoFile ==
    (gen.n > 0 /\ (\/ gen.env.kind \in {"conn_error", "timeout"}
                   \/ gen.env.kind = "response" /\ gen.env.status \notin 200..299)) =>
        /\ RequestFailedRaises(gen)
        /\ fsFiles = gen.filesBefore

\* C10, amended: a request that fails to connect, times out or is answered
\* with a status in 400..599 makes generate_audio raise and leaves every
\* file as it was, none added.
C10_ErrorRequestNoFile ==
    (gen.n > 0 /\ (\/ gen.env.kind \in {"conn_error", "timeout"}
                   \/ gen.env.kind = "response" /\ gen.env.status \in 400..599)) =>
        /\ RequestFailedRaises(gen)
        /\ fsFiles = gen.filesBefore

\* a call whose output path held a file timed out, and the file is as it was
C10_Witness ==
    /\ gen.n > 0 /\ gen.env.kind = "timeout" /\ gen.exc.type = "Timeout"
    /\ gen.out = {FileA} /\ FileA \in DOMAIN fsFiles /\ fsFiles[FileA] = OldContent

----------------------------------------------------------------------------
(* Properties of the service, checked under SpecServer *)

Posted == nreq > 0 /\ req.op = "POST /generate_audio"

InvocationFails(r) ==
    \/ r.handle = {}
    \/ r.out.kind = "raise"
    \/ r.out.kind = "return" /\ r.out.wavs = <<>>
    \/ r.out.kind = "return" /\ r.out.wavs # <<>> /\ r.out.wavs[1].dtype \notin SfDtypes

UnderlyingMessage(r) ==
    IF r.handle = {} THEN MsgNotLoaded
    ELSE IF r.out.kind = "raise" THEN r.out.msg
    ELSE IF r.out.wavs = <<>> THEN MsgIndexError
    ELSE MsgUnsupported

\* C5: a POST /generate_audio handled without a Model handle, or whose
\* Model invocation or WAV encoding raises, is answered with status 500 and
\* a detail that holds the message of the error, never with 200.
C5_FailureAnswers500 ==
    (Posted /\ InvocationFails(req)) =>
        /\ resp.status = 500
        /\ Contains(resp.detail, UnderlyingMessage(req))
        /\ resp.body = <<>>

\* the Model raised with a message, and the answer is 500 with it
C5_Witness ==
    /\ Posted /\ req.out.kind = "raise" /\ req.out.msg # <<>>
    /\ resp.status = 500 /\ Contains(resp.detail, req.out.msg)

\* C6: a POST /generate_audio handled with a Model handle, whose invocation
\* returns a buffer of samples and a rate, has invoked the Model once with
\* the text, the language and the instruct of the request, and is answered
\* 200 with a WAV body that is not empty, the media type audio/wav and the
\* attachment header.
C6_SuccessAnswersWav ==
    (/\ Posted /\ req.handle # {} /\ req.out.kind = "return"
     /\ req.out.wavs # <<>> /\ req.out.wavs[1].dtype \in SfDtypes) =>
        /\ modelCalls = <<[text |-> req.text,
                           language |-> IF req.language = {} THEN "Chinese"
                                        ELSE CHOOSE l \in req.language : TRUE,
                           instruct |-> req.instruct]>>
        /\ resp.status = 200
        /\ resp.body # <<>> /\ resp.body[1] = "RIFF"
        /\ Len(resp.body) = 2 + req.out.wavs[1].n
        /\ resp.media_type = "audio/wav"
        /\ resp.disposition = "attachment; filename=generated_audio.wav"

\* a request in English for which the Model returned a buffer without
\* samples was answered 200
C6_Witness ==
    /\ Posted /\ req.language = {"English"} /\ req.out.kind = "return"
    /\ req.out.wavs # <<>> /\ req.out.wavs[1].n = 0
    /\ resp.status = 200 /\ resp.body # <<>>

C7_HandleInitialized ==
    /\ initCount <= 1
    /\ phase = "serving" => initCount = 1 /\ model # {}
    /\ phase # "serving" => nreq = 0
    /\ nreq > 0 => req.handle # {} /\ req.handle = model

\* C7: every request is handled with the Model handle initialized:
\* init_model runs once, before any request, a start whose init_model
\* failed serves no request, and no handler changes the handle.
C7_InitOnceBeforeRequests ==
    /\ []C7_HandleInitialized
    /\ [][phase # "starting" => model' = model /\ initCount' = initCount]_vars

\* a request has been handled, with the handle that init_model set
C7_Witness ==
    /\ Posted /\ phase = "serving" /\ initCount = 1 /\ req.handle = {"Qwen3TTS"}

----------------------------------------------------------------------------
(* More properties of generate_audio, checked under SpecGen *)

Returned(g) == g.n > 0 /\ g.exc = NoExc

OutFile(g) == CHOOSE p \in g.out : TRUE

\* C11 as stated: a generate_audio call that returns normally returns the
\* path of a file that exists and whose size is greater than 0, whatever
\* the body of the response.
C11_ReturnedFileNotEmpty ==
    Returned(gen) =>
        /\ gen.out # {}
        /\ gen.ret = PathStr(OutFile(gen))
        /\ OutFile(gen) \in DOMAIN fsFiles
        /\ Len(fsFiles[OutFile(gen)]) > 0

\* C11, amended: a generate_audio call that returns normally returns the
\* path of a file that exists and holds the body of the response: its size
\* is greater than 0 exactly when that body is not empty.
C11_ReturnedFileHoldsBody ==
    Returned(gen) =>
        /\ ~Blank(gen.text) /\ ~Blank(gen.instruct)
        /\ gen.out # {}
        /\ gen.ret = PathStr(OutFile(gen))
        /\ OutFile(gen) \in DOMAIN fsFiles
        /\ fsFiles[OutFile(gen)] = gen.env.body
        /\ (Len(fsFiles[OutFile(gen)]) > 0 <=> gen.env.body # <<>>)

\* a call answered 200 with an audio body returned the path of a file that
\* was there before, and the file now holds the body
C11_Witness ==
    /\ Returned(gen) /\ gen.env.status = 200 /\ gen.env.body = WavBody
    /\ gen.out = {FileA} /\ gen.filesBefore # <<>>
    /\ fsFiles[FileA] = WavBody /\ gen.ret = PathStr(FileA)

----------------------------------------------------------------------------
(* Client: list_audio_files *)

\* audio_extensions
AudioExtensions ==
    {<<".", "wav">>, <<".", "mp3">>, <<".", "flac">>, <<".", "ogg">>, <<".", "m4a">>}

\* the tokens of file names, in the order of their strings (code points);
\* no token is a prefix of another, so comparing strings token by token
\* is comparing them character by character
TokOrder ==
    <<".", "/", "B", "MP3", "WAV", "a", "b", "c", "d", "e", "flac", "m4a",
      "mp3", "ogg", "sub", "txt", "wav", "x">>

TokRank(t) == CHOOSE k \in 1..Len(TokOrder) : TokOrder[k] = t

\* a < b on strings
RECURSIVE StrLess(_, _)
StrLess(a, b) ==
    IF b = <<>> THEN FALSE
    ELSE IF a = <<>> THEN TRUE
    ELSE IF Head(a) = Head(b) THEN StrLess(Tail(a), Tail(b))
    ELSE TokRank(Head(a)) < TokRank(Head(b))

\* str.lower
LowerTok(t) ==
    CASE t = "WAV" -> "wav"
      [] t = "MP3" -> "mp3"
      [] t = "B"   -> "b"
      [] OTHER     -> t

LowerStr(s) == [k \in 1..Len(s) |-> LowerTok(s[k])]

\* Path.name
Name(p) == IF p.parts = <<>> THEN <<>> ELSE p.parts[Len(p.parts)]

\* Path.suffix: the name from its last dot on, unless that dot is the
\* first or the last character of the name
Suffix(p) ==
    LET name == Name(p)
        dots == {k \in 1..Len(name) : name[k] = "."}
        i == CHOOSE k \in dots : \A j \in dots : j <= k
    IN  IF dots # {} /\ 1 < i /\ i < Len(name)
        THEN SubSeq(name, i, Len(name)) ELSE <<>>

\* Path(directory).glob("*"): the entries directly under the directory
Glob(directory, files, dirs) ==
    {p \in DOMAIN files \cup dirs :
        p.parts # <<>> /\ p # directory /\ Parent(p) = directory}

\* file_path.is_file() and file_path.suffix.lower() in audio_extensions
IsAudioFileAnyEntry(p, files) == LowerStr(Suffix(p)) \in AudioExtensions

IsAudioFile(p, files) ==
    p \in DOMAIN files /\ LowerStr(Suffix(p)) \in AudioExtensions

\* sorted(...) of a set of strings
RECURSIVE Sorted(_)
Sorted(S) ==
    IF S = {} THEN <<>>
    ELSE LET m == CHOOSE x \in S : \A y \in S : x = y \/ StrLess(x, y)
         IN  <<m>> \o Sorted(S \ {m})

\* list_audio_files
ListAudioFiles(directory, files, dirs) ==
    Sorted({PathStr(p) : p \in {q \in Glob(directory, files, dirs) :
                                   IsAudioFile(q, files)}})

ListAudio(directory) ==
    /\ listing' = [done |-> TRUE, directory |-> directory,
                   files |-> ListAudioFiles(directory, fsFiles, fsDirs)]
    /\ UNCHANGED <<clientVars, batchVars, serverVars>>

DirD == MkPath(FALSE, <<<<"d">>>>)
InDirD(parts) == MkPath(FALSE, <<<<"d">>>> \o parts)

\* regular files that may exist
ListFiles ==
    { InDirD(<< <<"a", ".", "wav">> >>),
      InDirD(<< <<"b", ".", "MP3">> >>),
      InDirD(<< <<"c", ".", "txt">> >>),
      InDirD(<< <<".", "wav">> >>),
      InDirD(<< <<"B", ".", "flac">> >>),
      InDirD(<< <<"sub">>, <<"e", ".", "flac">> >>),
      MkPath(FALSE, << <<"a", ".", "ogg">> >>) }

\* directories that may exist
ListDirs == { InDirD(<< <<"x", ".", "wav">> >>), InDirD(<< <<"sub">> >>) }

ListDirectories == {Cwd, DirD}

InitList ==
    /\ \E F \in SUBSET ListFiles, E \in SUBSET ListDirs :
          /\ fsFiles = [p \in F |-> OldContent]
          /\ fsDirs = E \cup UNION {Ancestors(Parent(p)) : p \in F}
                        \cup UNION {Ancestors(Parent(q)) : q \in E}
    /\ now = 0
    /\ netReqs = 0
    /\ ncalls = 0
    /\ gen = NoGen
    /\ BatchIdle
    /\ ServerOff
    /\ ListIdle

NextList == \E directory \in ListDirectories : ListAudio(directory)

SpecList == InitList /\ [][NextList]_vars

----------------------------------------------------------------------------
(* Properties of list_audio_files, checked under SpecList *)

Listed == {listing.files[k] : k \in 1..Len(listing.files)}

DirectlyUnder(p, directory) ==
    Len(p.parts) = Len(directory.parts) + 1 /\ Parent(p) = directory

\* the regular files directly under the directory with an audio extension
\* (compared without regard to case)
AudioFilesUnder(directory) ==
    {p \in DOMAIN fsFiles :
        /\ DirectlyUnder(p, directory)
        /\ LowerStr(Suffix(p)) \in AudioExtensions}

\* C12: list_audio_files returns exactly the regular files directly under
\* the directory whose extension is one of wav, mp3, flac, ogg, m4a, each
\* once, in ascending order of their paths; no directory, no file of a
\* subdirectory and no file with another extension is in the result.
C12_ListsExactlyAudioFiles ==
    listing.done =>
        /\ Listed = {PathStr(p) : p \in AudioFilesUnder(listing.directory)}
        /\ Len(listing.files) = Cardinality(AudioFilesUnder(listing.directory))
        /\ \A j, k \in 1..Len(listing.files) :
              j < k => StrLess(listing.files[j], listing.files[k])
        /\ \A q \in fsDirs : PathStr(q) \notin Listed
        /\ \A p \in DOMAIN fsFiles :
              ~DirectlyUnder(p, listing.directory) => PathStr(p) \notin Listed
        /\ \A p \in DOMAIN fsFiles :
              Suffix(p) \in {<<>>, <<".", "txt">>} => PathStr(p) \notin Listed

\* the directory holds three audio files, a text file, a file named .wav,
\* a directory named x.wav and a subdirectory with an audio file; the
\* three audio files are listed, in order
C12_Witness ==
    /\ listing.done /\ listing.directory = DirD
    /\ ListFiles \ {MkPath(FALSE, << <<"a", ".", "ogg">> >>)} \subseteq DOMAIN fsFiles
    /\ ListDirs \subseteq fsDirs
    /\ listing.files = << <<"d", "/", "B", ".", "flac">>,
                         <<"d", "/", "a", ".", "wav">>,
                         <<"d", "/", "b", ".", "MP3">> >>

----------------------------------------------------------------------------
(* More properties of the service, checked under SpecServer *)

\* C13: every GET / handled once the service is up is answered 200 with
\* the message and the version, whatever the requests handled before it
\* and however many of them were answered 500.
C13_RootAlwaysAnswers ==
    (nreq > 0 /\ req.op = "GET /") =>
        /\ phase = "serving"
        /\ resp.status = 200
        /\ resp.media_type = "application/json"
        /\ resp.payload = [message |-> "voice design API running",
                           version |-> "1.0.0"]
        /\ modelCalls = <<>>

\* a GET / that followed a generation request answered 500 was answered 200
C13_Witness ==
    /\ nreq > 1 /\ req.op = "GET /" /\ nerr > 0 /\ resp.status = 200

----------------------------------------------------------------------------
(* More properties of batch_generate, checked under SpecBatch *)

\* the calls of the batch that opened their output file for writing: those
\* that returned, and those whose response broke while it was saved
WritingCalls ==
    {k \in 1..Len(log) :
        /\ log[k].ev = "call"
        /\ log[k].exc \in {"none", "ChunkedEncodingError"}}

SucceededCalls == {k \in 1..Len(log) : log[k].ev = "call" /\ log[k].exc = "none"}

OutOf(k) == CHOOSE p \in log[k].out : TRUE

\* p is a path below the directory d
Inside(p, d) ==
    /\ p.abs = d.abs
    /\ Len(p.parts) > Len(d.parts)
    /\ SubSeq(p.parts, 1, Len(d.parts)) = d.parts

\* C14: every file batch_generate writes, for an item with a file name of
\* its own or without one, lies inside the output directory, and no two
\* items that succeed write the same path.
C14_FilesInsideOutputDir ==
    /\ \A k \in WritingCalls : Inside(OutOf(k), OutDir)
    /\ \A j, k \in SucceededCalls : j # k => OutOf(j) # OutOf(k)

============================================================================
